---- MODULE Spec2Model ----
(***************************************************************************)
(* Permission resolution of disco's Guild and Channel models, the guild's  *)
(* role operations, the MessageIterator of a channel, the channel's        *)
(* guarded operations and the target of an audit log entry.                *)
(*                                                                         *)
(* The state is the local snapshot the two resolvers read: the guild's    *)
(* owner, roles and cached members, the channel's guild association and   *)
(* permission overwrites; the iterator's fields and the messages of the   *)
(* channel it pages through; and the outcome of the last call with the    *)
(* API requests it made.                                                  *)
(***************************************************************************)
EXTENDS Integers, Sequences, FiniteSets

VARIABLES
    owner_id,    \* Guild.owner_id
    roles,       \* Guild.roles: role id -> Role.permissions (a partial map)
    members,     \* Guild.members: user id -> GuildMember (a partial map)
    guild_id,    \* Channel.guild_id (None for a DM-style channel)
    overwrites,  \* Channel.overwrites: id -> PermissionOverwrite (a partial map)
    ret,         \* what the last call was given, and what it returned or raised
    sent,        \* the requests the last call made to client.api, in order
    ref,         \* which object the value returned by the last call is
    iter,        \* the MessageIterator: its fields, or NoIterator
    source,      \* the ids of the messages the channel holds
    trace,       \* what the iterator was given and has delivered so far
    channel_type, \* Channel.type
    entry        \* the AuditLogEntry, or NoEntry

vars == <<owner_id, roles, members, guild_id, overwrites, ret, sent, ref, iter, source, trace,
          channel_type, entry>>

\* the snapshot the permission resolvers read
snapshotVars == <<owner_id, roles, members, guild_id, overwrites>>

\* the iterator and its channel
iterVars == <<iter, source, trace>>

\* the channel's type and the audit log entry
objectVars == <<channel_type, entry>>

-----------------------------------------------------------------------------
(* Bounds and input sets *)

\* longest member.roles list that is enumerated
MaxRoles == 2

\* most messages the channel holds when the iterator is made
MaxItems == 4

\* largest chunk_size an iterator is made with
MaxChunk == 2

\* most messages posted to the channel while the iterator is in use
MaxPosts == 1

\* Python's None, for a snowflake field that is unset
None == 0

\* Guild.id; the everyone role is the role whose id equals it
GuildId == 1

\* ids of the roles a member may reference (the guild id is the everyone role)
RoleIds == {1, 2, 3}

\* ids of the users calls are made for
UserIds == {4, 5}

\* Permissions.ADMINISTRATOR, the value returned for owners and DM channels
ADMINISTRATOR == 8

\* permission values the roles and overwrites of a snapshot carry
PermInputs == {0, 1, 2, 8}

\* allow / deny values the overwrites of a snapshot carry
OverwriteInputs == {0, 1, 8}

\* A lookup that found nothing (dict.get returning None, get_member returning None)
NoMember == [id |-> None, roles |-> <<>>]

SeqsUpTo(S, n) == UNION {[1..k -> S] : k \in 0..n}

Range(s) == {s[i] : i \in 1..Len(s)}

-----------------------------------------------------------------------------
(* PermissionValue: a bitset with union (+), clear (-) and membership *)

RECURSIVE BitOr(_, _)
BitOr(a, b) ==
    IF a = 0 THEN b
    ELSE IF b = 0 THEN a
    ELSE (IF a % 2 = 1 \/ b % 2 = 1 THEN 1 ELSE 0) + 2 * BitOr(a \div 2, b \div 2)

RECURSIVE BitClear(_, _)
BitClear(a, b) ==
    IF a = 0 THEN 0
    ELSE IF b = 0 THEN a
    ELSE (IF a % 2 = 1 /\ b % 2 = 0 THEN 1 ELSE 0) + 2 * BitClear(a \div 2, b \div 2)

\* value += other
PermAdd(value, other) == BitOr(value, other)

\* value -= other
PermSub(value, other) == BitClear(value, other)

\* the positions of the bits set in v
RECURSIVE BitsOf(_)
BitsOf(v) ==
    IF v = 0 THEN {}
    ELSE (IF v % 2 = 1 THEN {0} ELSE {}) \cup {b + 1 : b \in BitsOf(v \div 2)}

-----------------------------------------------------------------------------
(* Outcomes of a call *)

Return(v) == [kind |-> "return", value |-> v, exc |-> ""]

Raise(e) == [kind |-> "raise", value |-> 0, exc |-> e]

-----------------------------------------------------------------------------
(* Guild *)

\* what client.api.guilds_members_get can answer for a user that is not cached
FetchedRoles == {<<2>>}

ApiResponses ==
    {[ok |-> FALSE, roles |-> <<>>]} \cup {[ok |-> TRUE, roles |-> r] : r \in FetchedRoles}

\* get_member returning the fetched member without storing it
M_Guild_get_member_NoStore(user, resp) ==
    IF user \in DOMAIN members
    THEN [member |-> members[user], members |-> members]
    ELSE IF resp.ok
    THEN [member |-> [id |-> user, roles |-> resp.roles], members |-> members]
    ELSE [member |-> NoMember, members |-> members]

\* Guild.get_member(user): the member returned and guild.members afterwards.
\* A cached user is returned as is; a miss asks the API once and caches the
\* answer, or returns None when the API raises APIException.
Guild_get_member(user, resp) ==
    IF user \in DOMAIN members
    THEN [member |-> members[user], members |-> members]
    ELSE IF resp.ok
    THEN LET fetched == [id |-> user, roles |-> resp.roles]
         IN  [member |-> fetched,
              members |-> [u \in DOMAIN members \cup {user} |->
                              IF u = user THEN fetched ELSE members[u]]]
    ELSE [member |-> NoMember, members |-> members]

\* RolesLoop with `value = role.permissions` in place of `+=`
RECURSIVE M_RolesLoop_Assign(_, _)
M_RolesLoop_Assign(value, ids) ==
    IF ids = <<>> THEN [kind |-> "return", value |-> value, exc |-> ""]
    ELSE IF Head(ids) \notin DOMAIN roles
    THEN [kind |-> "raise", value |-> 0, exc |-> "AttributeError"]
    ELSE M_RolesLoop_Assign(roles[Head(ids)], Tail(ids))

\* RolesLoop with an `if role:` guard that skips the ids guild.roles lacks
RECURSIVE M_RolesLoop_SkipMissing(_, _)
M_RolesLoop_SkipMissing(value, ids) ==
    IF ids = <<>> THEN [kind |-> "return", value |-> value, exc |-> ""]
    ELSE IF Head(ids) \notin DOMAIN roles THEN M_RolesLoop_SkipMissing(value, Tail(ids))
    ELSE M_RolesLoop_SkipMissing(PermAdd(value, roles[Head(ids)]), Tail(ids))

\* for role in map(self.roles.get, ids): value += role.permissions
\* (a role id that is not in guild.roles yields None, whose .permissions raises)
RECURSIVE RolesLoop(_, _)
RolesLoop(value, ids) ==
    IF ids = <<>> THEN Return(value)
    ELSE IF Head(ids) \notin DOMAIN roles THEN Raise("AttributeError")
    ELSE RolesLoop(PermAdd(value, roles[Head(ids)]), Tail(ids))

\* GuildPermissionsOf without the owner short-circuit
M_GuildPermissionsOf_NoOwner(member) ==
    IF member = NoMember THEN Raise("AttributeError")
    ELSE IF GuildId \notin DOMAIN roles THEN Raise("AttributeError")
    ELSE RolesLoop(roles[GuildId], member.roles \o <<GuildId>>)

\* GuildPermissionsOf iterating member.roles[1:], an off-by-one in the loop
M_GuildPermissionsOf_SkipFirst(member) ==
    IF member = NoMember THEN Raise("AttributeError")
    ELSE IF owner_id = member.id THEN Return(ADMINISTRATOR)
    ELSE IF GuildId \notin DOMAIN roles THEN Raise("AttributeError")
    ELSE RolesLoop(roles[GuildId],
                   (IF member.roles = <<>> THEN <<>> ELSE Tail(member.roles)) \o <<GuildId>>)

\* Guild.get_permissions once `member` is resolved (None when the lookup failed)
GuildPermissionsOf(member) ==
    IF member = NoMember THEN Raise("AttributeError")
    ELSE IF owner_id = member.id THEN Return(ADMINISTRATOR)
    ELSE IF GuildId \notin DOMAIN roles THEN Raise("AttributeError")
    ELSE RolesLoop(roles[GuildId], member.roles \o <<GuildId>>)

\* Guild.get_permissions(member): `arg` is a GuildMember of this guild or a
\* snowflake, which is resolved with get_member first
Guild_get_permissions(arg, resp) ==
    IF arg.kind = "member"
    THEN [out |-> GuildPermissionsOf(members[arg.id]), members |-> members]
    ELSE LET got == Guild_get_member(arg.id, resp)
         IN  [out |-> GuildPermissionsOf(got.member), members |-> got.members]

\* ids the API gives to the roles it creates
CreatedRoleIds == {6}

RoleRequest(api, role) == [api |-> api, guild |-> GuildId, id |-> role]

\* Guild.create_role(**kwargs): guild.roles afterwards and the request made
Guild_create_role ==
    [roles |-> roles, sent |-> <<RoleRequest("guilds_roles_create", None)>>]

\* delete_role that also drops the role from guild.roles
M_Guild_delete_role_Local(role) ==
    [roles |-> [r \in DOMAIN roles \ {role} |-> roles[r]],
     sent |-> <<RoleRequest("guilds_roles_delete", role)>>]

\* Guild.delete_role(role)
Guild_delete_role(role) ==
    [roles |-> roles, sent |-> <<RoleRequest("guilds_roles_delete", role)>>]

\* Guild.update_role(role, **kwargs)
Guild_update_role(role) ==
    [roles |-> roles, sent |-> <<RoleRequest("guilds_roles_modify", role)>>]

\* Role.delete(): self.guild.delete_role(self)
Role_delete(role) == Guild_delete_role(role)

\* no value was returned
NoRef == <<"none", None>>

\* get_permissions returning the everyone role's own PermissionValue, as
\* `value = self.roles.get(self.id).permissions` without the copy would
M_GuildResultRef_NoCopy == <<"role", GuildId>>

\* the object Guild.get_permissions returns: PermissionValue(...) makes a new
\* one, which the loop then updates in place
GuildResultRef == <<"new", None>>

\* the object Channel.get_permissions returns: the Permissions.ADMINISTRATOR
\* constant on a DM-style channel, else the object guild.get_permissions
\* returned, updated in place
ChannelResultRef == IF guild_id = None THEN <<"constant", None>> ELSE GuildResultRef

\* the request get_member makes for a user that is not in guild.members
MemberRequest(user) ==
    IF user \in DOMAIN members THEN <<>>
    ELSE <<[api |-> "guilds_members_get", guild |-> GuildId, id |-> user]>>

-----------------------------------------------------------------------------
(* Channel *)

\* ApplyOverwrite with the two statements swapped: allow first, then deny
M_ApplyOverwrite_AllowThenDeny(base, overwrite) ==
    PermSub(PermAdd(base, overwrite.allow), overwrite.deny)

\* base -= overwrite.deny; base += overwrite.allow
ApplyOverwrite(base, overwrite) ==
    PermAdd(PermSub(base, overwrite.deny), overwrite.allow)

\* overwrite = self.overwrites.get(key); if overwrite: apply it
ApplyOverwriteOf(base, key) ==
    IF key \in DOMAIN overwrites THEN ApplyOverwrite(base, overwrites[key]) ELSE base

\* for role_id in member.roles: apply the overwrite keyed by role_id
RECURSIVE RoleOverwritesLoop(_, _)
RoleOverwritesLoop(base, ids) ==
    IF ids = <<>> THEN base
    ELSE RoleOverwritesLoop(ApplyOverwriteOf(base, Head(ids)), Tail(ids))

\* LayerOverwrites with the member's own overwrite applied before the roles'
M_LayerOverwrites_MemberBeforeRoles(base, member) ==
    LET everyone == ApplyOverwriteOf(base, guild_id)
        withMember == ApplyOverwriteOf(everyone, member.id)
    IN  RoleOverwritesLoop(withMember, member.roles)

\* LayerOverwrites with the member's own overwrite applied first of all
M_LayerOverwrites_MemberFirst(base, member) ==
    LET withMember == ApplyOverwriteOf(base, member.id)
        everyone == ApplyOverwriteOf(withMember, guild_id)
    IN  RoleOverwritesLoop(everyone, member.roles)

\* LayerOverwrites with the everyone overwrite applied after the roles'
M_LayerOverwrites_EveryoneAfterRoles(base, member) ==
    LET withRoles == RoleOverwritesLoop(base, member.roles)
        everyone == ApplyOverwriteOf(withRoles, guild_id)
    IN  ApplyOverwriteOf(everyone, member.id)

\* the overwrite layering on top of a base value: everyone, roles, member
LayerOverwrites(base, member) ==
    LET everyone == ApplyOverwriteOf(base, guild_id)
        withRoles == RoleOverwritesLoop(everyone, member.roles)
    IN  ApplyOverwriteOf(withRoles, member.id)

\* Channel.get_permissions of a guild channel once the member is looked up.
\* With no member, guild.get_permissions(None) fails converting None to a
\* snowflake.
ChannelPermissionsOf(member) ==
    IF member = NoMember THEN Raise("Exception")
    ELSE LET base == GuildPermissionsOf(member)
         IN  IF base.kind = "raise" THEN base
             ELSE Return(LayerOverwrites(base.value, member))

\* Channel.get_permissions without the `if not self.guild_id` early return
M_Channel_get_permissions_NoDM(user, resp) ==
    LET got == Guild_get_member(user, resp)
    IN  [out |-> ChannelPermissionsOf(got.member), members |-> got.members]

\* Channel.get_permissions(user)
Channel_get_permissions(user, resp) ==
    IF guild_id = None
    THEN [out |-> Return(ADMINISTRATOR), members |-> members]
    ELSE LET got == Guild_get_member(user, resp)
         IN  [out |-> ChannelPermissionsOf(got.member), members |-> got.members]

-----------------------------------------------------------------------------
(* MessageIterator *)

\* MessageIterator.Direction
UP == 1

DOWN == 2

\* before / after cursors an iterator is made with, besides None
CursorInputs == {2, 3}

\* no iterator object: none was made, or __init__ raised
NoIterator ==
    [live |-> FALSE, direction |-> UP, bulk |-> FALSE, before |-> None, after |-> None,
     chunk_size |-> 0, buffer |-> <<>>]

Reverse(s) == [i \in 1..Len(s) |-> s[Len(s) + 1 - i]]

\* the ids of S, newest (largest) first
RECURSIVE Descending(_)
Descending(S) ==
    IF S = {} THEN <<>>
    ELSE LET m == CHOOSE x \in S : \A y \in S : y <= x
         IN  <<m>> \o Descending(S \ {m})

FirstN(s, n) == SubSeq(s, 1, IF Len(s) < n THEN Len(s) ELSE n)

LastN(s, n) == SubSeq(s, IF Len(s) < n THEN 1 ELSE Len(s) - n + 1, Len(s))

\* client.api.channels_messages_list(channel, before, after, limit): at most
\* `limit` messages older than `before` and newer than `after`, newest first;
\* those next to `after` when only `after` is given, else the newest ones
channels_messages_list(before, after, limit) ==
    LET matching == Descending({m \in source : /\ (before = None \/ m < before)
                                                /\ (after = None \/ m > after)})
    IN  IF before = None /\ after # None THEN LastN(matching, limit)
        ELSE FirstN(matching, limit)

\* the request fill() makes
FillRequest(it) ==
    [api |-> "channels_messages_list", before |-> it.before, after |-> it.after,
     limit |-> it.chunk_size]

\* MessageIterator.__init__ without the check of lines 866-867
M_MessageIterator_init_NoCheck(direction, bulk, before, after, chunk_size) ==
    [out |-> Return(None),
     iter |-> [live |-> TRUE, direction |-> direction, bulk |-> bulk,
               before |-> before, after |-> after, chunk_size |-> chunk_size,
               buffer |-> <<>>],
     sent |-> <<>>]

\* MessageIterator.__init__ fetching the first page at once
M_MessageIterator_init_Prefetch(direction, bulk, before, after, chunk_size) ==
    IF before = None /\ after = None /\ direction = DOWN
    THEN [out |-> Raise("Exception"), iter |-> NoIterator, sent |-> <<>>]
    ELSE [out |-> Return(None),
          iter |-> [live |-> TRUE, direction |-> direction, bulk |-> bulk,
                    before |-> before, after |-> after, chunk_size |-> chunk_size,
                    buffer |-> channels_messages_list(before, after, chunk_size)],
          sent |-> <<[api |-> "channels_messages_list", before |-> before,
                      after |-> after, limit |-> chunk_size]>>]

\* MessageIterator.__init__: the object the caller gets, if any
MessageIterator_init(direction, bulk, before, after, chunk_size) ==
    IF before = None /\ after = None /\ direction = DOWN
    THEN [out |-> Raise("Exception"), iter |-> NoIterator, sent |-> <<>>]
    ELSE [out |-> Return(None),
          iter |-> [live |-> TRUE, direction |-> direction, bulk |-> bulk,
                    before |-> before, after |-> after, chunk_size |-> chunk_size,
                    buffer |-> <<>>],
          sent |-> <<>>]

\* fill() taking the cursor from the first item of the buffer instead of the
\* last (lines 893 and 897)
M_MessageIterator_fill_FirstItem(it, ok) ==
    IF ~ok
    THEN [raised |-> TRUE, filled |-> FALSE, iter |-> it, page |-> <<>>,
          sent |-> <<FillRequest(it)>>]
    ELSE LET page == channels_messages_list(it.before, it.after, it.chunk_size)
         IN  IF Len(page) = 0
             THEN [raised |-> FALSE, filled |-> FALSE, iter |-> [it EXCEPT !.buffer = page],
                   page |-> page, sent |-> <<FillRequest(it)>>]
             ELSE IF it.direction = UP
             THEN [raised |-> FALSE, filled |-> TRUE,
                   iter |-> [it EXCEPT !.buffer = page, !.after = None,
                                       !.before = page[1]],
                   page |-> page, sent |-> <<FillRequest(it)>>]
             ELSE LET reversed == Reverse(page)
                  IN  [raised |-> FALSE, filled |-> TRUE,
                       iter |-> [it EXCEPT !.buffer = reversed, !.before = None,
                                           !.after = reversed[1]],
                       page |-> page, sent |-> <<FillRequest(it)>>]

\* fill() clearing the cursors before the fetch, so that a raising fetch
\* leaves them unset
M_MessageIterator_fill_ClearFirst(it, ok) ==
    IF ~ok
    THEN [raised |-> TRUE, filled |-> FALSE,
          iter |-> [it EXCEPT !.before = None, !.after = None], page |-> <<>>,
          sent |-> <<FillRequest(it)>>]
    ELSE LET page == channels_messages_list(it.before, it.after, it.chunk_size)
         IN  IF Len(page) = 0
             THEN [raised |-> FALSE, filled |-> FALSE, iter |-> [it EXCEPT !.buffer = page],
                   page |-> page, sent |-> <<FillRequest(it)>>]
             ELSE IF it.direction = UP
             THEN [raised |-> FALSE, filled |-> TRUE,
                   iter |-> [it EXCEPT !.buffer = page, !.after = None,
                                       !.before = page[Len(page)]],
                   page |-> page, sent |-> <<FillRequest(it)>>]
             ELSE LET reversed == Reverse(page)
                  IN  [raised |-> FALSE, filled |-> TRUE,
                       iter |-> [it EXCEPT !.buffer = reversed, !.before = None,
                                           !.after = reversed[Len(reversed)]],
                       page |-> page, sent |-> <<FillRequest(it)>>]

\* fill() without the two assignments of lines 889-890, so that the cursor of
\* the other side is kept
M_MessageIterator_fill_KeepOther(it, ok) ==
    IF ~ok
    THEN [raised |-> TRUE, filled |-> FALSE, iter |-> it, page |-> <<>>,
          sent |-> <<FillRequest(it)>>]
    ELSE LET page == channels_messages_list(it.before, it.after, it.chunk_size)
         IN  IF Len(page) = 0
             THEN [raised |-> FALSE, filled |-> FALSE, iter |-> [it EXCEPT !.buffer = page],
                   page |-> page, sent |-> <<FillRequest(it)>>]
             ELSE IF it.direction = UP
             THEN [raised |-> FALSE, filled |-> TRUE,
                   iter |-> [it EXCEPT !.buffer = page, !.before = page[Len(page)]],
                   page |-> page, sent |-> <<FillRequest(it)>>]
             ELSE LET reversed == Reverse(page)
                  IN  [raised |-> FALSE, filled |-> TRUE,
                       iter |-> [it EXCEPT !.buffer = reversed,
                                           !.after = reversed[Len(reversed)]],
                       page |-> page, sent |-> <<FillRequest(it)>>]

\* MessageIterator.fill(): `ok` is whether the API call returns; when it
\* raises, nothing has been assigned yet
MessageIterator_fill(it, ok) ==
    IF ~ok
    THEN [raised |-> TRUE, filled |-> FALSE, iter |-> it, page |-> <<>>,
          sent |-> <<FillRequest(it)>>]
    ELSE LET page == channels_messages_list(it.before, it.after, it.chunk_size)
         IN  IF Len(page) = 0
             THEN [raised |-> FALSE, filled |-> FALSE, iter |-> [it EXCEPT !.buffer = page],
                   page |-> page, sent |-> <<FillRequest(it)>>]
             ELSE IF it.direction = UP
             THEN [raised |-> FALSE, filled |-> TRUE,
                   iter |-> [it EXCEPT !.buffer = page, !.after = None,
                                       !.before = page[Len(page)]],
                   page |-> page, sent |-> <<FillRequest(it)>>]
             ELSE LET reversed == Reverse(page)
                  IN  [raised |-> FALSE, filled |-> TRUE,
                       iter |-> [it EXCEPT !.buffer = reversed, !.before = None,
                                           !.after = reversed[Len(reversed)]],
                       page |-> page, sent |-> <<FillRequest(it)>>]

\* __next__ returning the buffer in bulk mode without replacing it (line 928)
M_TakeFromBuffer_KeepBuffer(it) ==
    IF it.bulk
    THEN [out |-> Return(it.buffer), iter |-> it]
    ELSE [out |-> Return(it.buffer[Len(it.buffer)]),
          iter |-> [it EXCEPT !.buffer = SubSeq(it.buffer, 1, Len(it.buffer) - 1)]]

\* __next__ returning the last item of the buffer without removing it
M_TakeFromBuffer_Peek(it) ==
    IF it.bulk
    THEN [out |-> Return(it.buffer), iter |-> [it EXCEPT !.buffer = <<>>]]
    ELSE [out |-> Return(it.buffer[Len(it.buffer)]), iter |-> it]

\* the end of __next__: the whole buffer in bulk mode, else self._buffer.pop()
TakeFromBuffer(it) ==
    IF it.bulk
    THEN [out |-> Return(it.buffer), iter |-> [it EXCEPT !.buffer = <<>>]]
    ELSE [out |-> Return(it.buffer[Len(it.buffer)]),
          iter |-> [it EXCEPT !.buffer = SubSeq(it.buffer, 1, Len(it.buffer) - 1)]]

\* __next__ calling fill() on every read, not only on an empty buffer
M_MessageIterator_next_AlwaysFill(it, ok) ==
    LET f == MessageIterator_fill(it, ok)
    IN  IF f.raised
        THEN [out |-> Raise("APIException"), iter |-> f.iter, page |-> f.page,
              sent |-> f.sent]
        ELSE IF ~f.filled
        THEN [out |-> Raise("StopIteration"), iter |-> f.iter, page |-> f.page,
              sent |-> f.sent]
        ELSE [out |-> TakeFromBuffer(f.iter).out, iter |-> TakeFromBuffer(f.iter).iter,
              page |-> f.page, sent |-> f.sent]

\* MessageIterator.__next__()
MessageIterator_next(it, ok) ==
    IF Len(it.buffer) = 0
    THEN LET f == MessageIterator_fill(it, ok)
         IN  IF f.raised
             THEN [out |-> Raise("APIException"), iter |-> f.iter, page |-> f.page,
                   sent |-> f.sent]
             ELSE IF ~f.filled
             THEN [out |-> Raise("StopIteration"), iter |-> f.iter, page |-> f.page,
                   sent |-> f.sent]
             ELSE [out |-> TakeFromBuffer(f.iter).out, iter |-> TakeFromBuffer(f.iter).iter,
                   page |-> f.page, sent |-> f.sent]
    ELSE [out |-> TakeFromBuffer(it).out, iter |-> TakeFromBuffer(it).iter,
          page |-> <<>>, sent |-> <<>>]

\* what happened to the iterator so far: the arguments it was made with, the
\* messages posted since, whether a read signalled StopIteration, what the
\* reads returned (log), what the fetches delivered (delivered, and the last
\* non-empty page as the API returned it), and whether fill() was ever called
\* by the user instead of by a read (direct)
NoTrace ==
    [direction0 |-> UP, before0 |-> None, after0 |-> None, posted |-> 0, stopped |-> FALSE,
     log |-> <<>>, delivered |-> <<>>, page |-> <<>>, direct |-> FALSE]

-----------------------------------------------------------------------------
(* Channel types *)

GUILD_TEXT == 0

DM == 1

GUILD_VOICE == 2

GROUP_DM == 3

GUILD_CATEGORY == 4

GUILD_NEWS == 5

GUILD_STORE == 6

ChannelTypes == {GUILD_TEXT, DM, GUILD_VOICE, GROUP_DM, GUILD_CATEGORY, GUILD_NEWS, GUILD_STORE}

\* Channel.is_guild
is_guild(type) == type \in {GUILD_TEXT, GUILD_VOICE, GUILD_CATEGORY, GUILD_NEWS}

\* Channel.is_dm
is_dm(type) == type \in {DM, GROUP_DM}

\* Channel.is_voice
is_voice(type) == type \in {GUILD_VOICE, GROUP_DM}

-----------------------------------------------------------------------------
(* Channel operations *)

\* Channel.id
ChannelId == 9

\* client.state.me, the bot's own user
Me == 4

MANAGE_CHANNELS == 16

MANAGE_MESSAGES == 8192

\* most ids one channels_messages_delete_bulk call is given
BulkChunk == 100

\* longest message list passed to delete_messages
MaxMessages == 101

\* lengths of the message lists passed to delete_messages: the short ones, and
\* the ones about one full bulk chunk long
MessageCounts == 0..3 \cup (MaxMessages - 2)..MaxMessages

\* permission values the roles and overwrites carry where operations are guarded
GuardInputs == {0, ADMINISTRATOR, MANAGE_CHANNELS, MANAGE_MESSAGES}

\* PermissionValue.can(perm): administrator, or every bit of perm
Can(value, perm) ==
    \/ BitsOf(ADMINISTRATOR) \subseteq BitsOf(value)
    \/ BitsOf(perm) \subseteq BitsOf(value)

\* chunks(list, size): consecutive slices of `size` items, the last one shorter
RECURSIVE chunks(_, _)
chunks(s, size) ==
    IF Len(s) = 0 THEN <<>>
    ELSE IF Len(s) <= size THEN <<s>>
    ELSE <<SubSeq(s, 1, size)>> \o chunks(SubSeq(s, size + 1, Len(s)), size)

DeleteRequest(message) ==
    [api |-> "channels_messages_delete", channel |-> ChannelId, ids |-> <<message>>]

BulkDeleteRequest(chunk) ==
    [api |-> "channels_messages_delete_bulk", channel |-> ChannelId, ids |-> chunk]

\* Channel.delete_message(message)
Channel_delete_message(message) == <<DeleteRequest(message)>>

\* the request Channel.get_permissions(user) makes: none on a channel without
\* a guild, else the one get_member makes for a user that is not cached
ChannelLookup(user) == IF guild_id = None THEN <<>> ELSE MemberRequest(user)

\* the for loops of delete_messages: one request per item
SendEach(items, Request(_)) == [i \in 1..Len(items) |-> Request(items[i])]

\* delete_messages taking the bulk route from 2 messages on (>= in line 524)
M_Channel_delete_messages_FromTwo(messages, resp, plain) ==
    IF messages = <<>>
    THEN [out |-> Return(None), sent |-> <<>>, members |-> members]
    ELSE IF guild_id = None /\ plain
    THEN [out |-> Raise("AttributeError"), sent |-> <<>>, members |-> members]
    ELSE LET p == Channel_get_permissions(Me, resp)
             lookup == ChannelLookup(Me)
         IN  IF p.out.kind = "raise"
             THEN [out |-> p.out, sent |-> lookup, members |-> p.members]
             ELSE IF Can(p.out.value, MANAGE_MESSAGES) /\ Len(messages) >= 2
             THEN [out |-> Return(None),
                   sent |-> lookup \o SendEach(chunks(messages, BulkChunk),
                                               BulkDeleteRequest),
                   members |-> p.members]
             ELSE [out |-> Return(None),
                   sent |-> lookup \o SendEach(messages, DeleteRequest),
                   members |-> p.members]

\* Channel.delete_messages(messages): the outcome, the requests made (the
\* member lookup of the permission check first) and guild.members afterwards.
\* On a channel without a guild get_permissions returns the bare
\* Permissions.ADMINISTRATOR constant (line 223), not a PermissionValue:
\* `plain` is whether that constant is a plain int, on which the permission
\* check raises AttributeError, or an object that answers it
Channel_delete_messages(messages, resp, plain) ==
    IF messages = <<>>
    THEN [out |-> Return(None), sent |-> <<>>, members |-> members]
    ELSE IF guild_id = None /\ plain
    THEN [out |-> Raise("AttributeError"), sent |-> <<>>, members |-> members]
    ELSE LET p == Channel_get_permissions(Me, resp)
             lookup == ChannelLookup(Me)
         IN  IF p.out.kind = "raise"
             THEN [out |-> p.out, sent |-> lookup, members |-> p.members]
             ELSE IF Can(p.out.value, MANAGE_MESSAGES) /\ Len(messages) > 2
             THEN [out |-> Return(None),
                   sent |-> lookup \o SendEach(chunks(messages, BulkChunk),
                                               BulkDeleteRequest),
                   members |-> p.members]
             ELSE [out |-> Return(None),
                   sent |-> lookup \o SendEach(messages, DeleteRequest),
                   members |-> p.members]

\* Channel.delete without the assert of line 545
M_Channel_delete_NoAssert(resp) ==
    [out |-> Return(None), members |-> members,
     sent |-> <<[api |-> "channels_delete", channel |-> ChannelId]>>]

\* Channel.delete(): the outcome, guild.members afterwards and the requests
\* made (the member lookup of guild.can first)
Channel_delete(resp) ==
    IF is_dm(channel_type)
    THEN [out |-> Return(None), members |-> members,
          sent |-> <<[api |-> "channels_delete", channel |-> ChannelId]>>]
    ELSE IF guild_id = None
    THEN [out |-> Raise("AttributeError"), members |-> members, sent |-> <<>>]
    ELSE LET p == Guild_get_permissions([kind |-> "snowflake", id |-> Me], resp)
             lookup == MemberRequest(Me)
         IN  IF p.out.kind = "raise"
             THEN [out |-> p.out, members |-> p.members, sent |-> lookup]
             ELSE IF ~Can(p.out.value, MANAGE_CHANNELS)
             THEN [out |-> Raise("AssertionError"), members |-> p.members,
                   sent |-> lookup]
             ELSE [out |-> Return(None), members |-> p.members,
                   sent |-> lookup \o <<[api |-> "channels_delete",
                                         channel |-> ChannelId]>>]

\* the setters that assert on the channel's type
Setters == {"set_nsfw", "set_bitrate", "set_user_limit", "set_parent", "set_slowmode"}

\* the channels_modify keyword each setter passes besides reason
FieldOf(setter) ==
    CASE setter = "set_nsfw" -> "nsfw"
      [] setter = "set_bitrate" -> "bitrate"
      [] setter = "set_user_limit" -> "user_limit"
      [] setter = "set_parent" -> "parent_id"
      [] setter = "set_slowmode" -> "rate_limit_per_user"

\* the assert each setter starts with
Asserted(setter, type) ==
    CASE setter \in {"set_nsfw", "set_slowmode"} -> type = GUILD_TEXT
      [] setter \in {"set_bitrate", "set_user_limit"} -> is_voice(type)
      [] setter = "set_parent" -> is_guild(type)

\* Channel.set_nsfw / set_bitrate / set_user_limit / set_parent / set_slowmode
Channel_set(setter) ==
    IF ~Asserted(setter, channel_type)
    THEN [out |-> Raise("AssertionError"), sent |-> <<>>]
    ELSE [out |-> Return(None),
          sent |-> <<[api |-> "channels_modify", channel |-> ChannelId,
                      fields |-> {FieldOf(setter)}]>>]

-----------------------------------------------------------------------------
(* PermissionOverwrite operations *)

\* entities create_overwrite is called for: a role and a member
OverwriteEntities == {2, 4}

ModifyRequest(id, allow, deny) ==
    [api |-> "channels_permissions_modify", channel |-> ChannelId, id |-> id,
     allow |-> allow, deny |-> deny]

\* PermissionOverwrite.save(): the channel's overwrites afterwards, the
\* request made and the object returned
PermissionOverwrite_save(o) ==
    [overwrites |-> overwrites,
     sent |-> <<ModifyRequest(o.id, o.allow, o.deny)>>,
     ref |-> <<"overwrite", o.id>>]

\* PermissionOverwrite.delete() removing the overwrite from the local map too
M_PermissionOverwrite_delete_Local(o) ==
    [overwrites |-> [k \in DOMAIN overwrites \ {o.id} |-> overwrites[k]],
     sent |-> <<[api |-> "channels_permissions_delete", channel |-> ChannelId,
                 id |-> o.id]>>,
     ref |-> NoRef]

\* PermissionOverwrite.delete()
PermissionOverwrite_delete(o) ==
    [overwrites |-> overwrites,
     sent |-> <<[api |-> "channels_permissions_delete", channel |-> ChannelId,
                 id |-> o.id]>>,
     ref |-> NoRef]

\* PermissionOverwrite.create_for_channel(channel, entity, allow, deny): a new
\* overwrite object, saved
PermissionOverwrite_create_for_channel(entity, allow, deny) ==
    PermissionOverwrite_save([id |-> entity, allow |-> allow, deny |-> deny])

\* Channel.create_overwrite(entity, allow, deny)
Channel_create_overwrite(entity, allow, deny) ==
    PermissionOverwrite_create_for_channel(entity, allow, deny)

\* the overwrite stored in the channel under `id`, as an object with its id
StoredOverwrite(id) ==
    [id |-> id, allow |-> overwrites[id].allow, deny |-> overwrites[id].deny]

-----------------------------------------------------------------------------
(* AuditLogEntry *)

\* no audit log entry
NoEntry == [action_type |-> None, target_id |-> None, guild_known |-> FALSE, cached |-> None]

GUILD_ACTIONS == {1}

CHANNEL_ACTIONS == {10, 11, 12, 13, 14, 15}

MEMBER_ACTIONS == {20, 21, 22, 23, 24, 25}

ROLE_ACTIONS == {30, 31, 32}

INVITE_ACTIONS == {40, 41, 42}

WEBHOOK_ACTIONS == {50, 51, 52}

EMOJI_ACTIONS == {60, 61, 62}

MESSAGE_ACTIONS == {72}

\* the values of AuditLogActionTypes
AuditLogActionTypes ==
    GUILD_ACTIONS \cup CHANNEL_ACTIONS \cup MEMBER_ACTIONS \cup ROLE_ACTIONS
        \cup INVITE_ACTIONS \cup WEBHOOK_ACTIONS \cup EMOJI_ACTIONS \cup MESSAGE_ACTIONS

\* ids an entry's target_id takes: 2 and 3 are known to the guild, 7 is not
TargetIds == {2, 3, 7}

\* keys of guild.channels and of guild.emojis
GuildChannelIds == {2, 3}

GuildEmojiIds == {2, 3}

\* what self.state.users.get(target_id) does for a member entry without a
\* cached target
UserLookups == {"found", "missing", "AttributeError"}

\* dict.get(key): the object under the key, or None
Lookup(kind, keys, key) ==
    [out |-> Return(None), ref |-> IF key \in keys THEN <<kind, key>> ELSE NoRef]

\* AuditLogEntry.target with a last branch that raises for an action type of
\* no handled group
M_AuditLogEntry_target_ElseRaise(e, users) ==
    IF e.action_type \in GUILD_ACTIONS
    THEN Lookup("guild", IF e.guild_known THEN {GuildId} ELSE {}, GuildId)
    ELSE IF e.action_type \in CHANNEL_ACTIONS
    THEN IF e.guild_known THEN Lookup("channel", GuildChannelIds, e.target_id)
         ELSE [out |-> Raise("AttributeError"), ref |-> NoRef]
    ELSE IF e.action_type \in MEMBER_ACTIONS
    THEN IF e.cached # None THEN [out |-> Return(None), ref |-> <<"user", e.cached>>]
         ELSE IF users = "AttributeError"
         THEN [out |-> Raise("AttributeError"), ref |-> NoRef]
         ELSE Lookup("user", IF users = "found" THEN {e.target_id} ELSE {}, e.target_id)
    ELSE IF e.action_type \in ROLE_ACTIONS
    THEN IF e.guild_known THEN Lookup("role", DOMAIN roles, e.target_id)
         ELSE [out |-> Raise("AttributeError"), ref |-> NoRef]
    ELSE IF e.action_type \in WEBHOOK_ACTIONS
    THEN Lookup("webhook", {e.cached} \ {None}, e.cached)
    ELSE IF e.action_type \in EMOJI_ACTIONS
    THEN IF e.guild_known THEN Lookup("emoji", GuildEmojiIds, e.target_id)
         ELSE [out |-> Raise("AttributeError"), ref |-> NoRef]
    ELSE [out |-> Raise("ValueError"), ref |-> NoRef]

\* AuditLogEntry.target: the object returned (ref), None, or the error of
\* reading a collection of a guild that client.state does not hold
AuditLogEntry_target(e, users) ==
    IF e.action_type \in GUILD_ACTIONS
    THEN Lookup("guild", IF e.guild_known THEN {GuildId} ELSE {}, GuildId)
    ELSE IF e.action_type \in CHANNEL_ACTIONS
    THEN IF e.guild_known THEN Lookup("channel", GuildChannelIds, e.target_id)
         ELSE [out |-> Raise("AttributeError"), ref |-> NoRef]
    ELSE IF e.action_type \in MEMBER_ACTIONS
    THEN IF e.cached # None THEN [out |-> Return(None), ref |-> <<"user", e.cached>>]
         ELSE IF users = "AttributeError"
         THEN [out |-> Raise("AttributeError"), ref |-> NoRef]
         ELSE Lookup("user", IF users = "found" THEN {e.target_id} ELSE {}, e.target_id)
    ELSE IF e.action_type \in ROLE_ACTIONS
    THEN IF e.guild_known THEN Lookup("role", DOMAIN roles, e.target_id)
         ELSE [out |-> Raise("AttributeError"), ref |-> NoRef]
    ELSE IF e.action_type \in WEBHOOK_ACTIONS
    THEN Lookup("webhook", {e.cached} \ {None}, e.cached)
    ELSE IF e.action_type \in EMOJI_ACTIONS
    THEN IF e.guild_known THEN Lookup("emoji", GuildEmojiIds, e.target_id)
         ELSE [out |-> Raise("AttributeError"), ref |-> NoRef]
    ELSE [out |-> Return(None), ref |-> NoRef]

-----------------------------------------------------------------------------
(* Snapshots and calls *)

NoCall == [op |-> "none", arg |-> None, kind |-> "none", value |-> 0, exc |-> ""]

Called(op, id, out) ==
    [op |-> op, arg |-> id, kind |-> out.kind, value |-> out.value, exc |-> out.exc]

PartialMaps(D, V) == UNION {[S -> V] : S \in SUBSET D}

MemberOf(user, rs) == [id |-> user, roles |-> rs]

\* the users whose member is in guild.members from the start
CachedAtInit == {4}

\* overwrites as the API delivers them for a channel
OverwriteValues(V) == {[allow |-> a, deny |-> d] : a \in V, d \in V}

\* nothing was sent or returned, and there is no iterator
NoCallsYet ==
    /\ sent = <<>>
    /\ ref = NoRef
    /\ iter = NoIterator
    /\ source = {}
    /\ trace = NoTrace
    /\ channel_type = (IF guild_id = None THEN DM ELSE GUILD_TEXT)
    /\ entry = NoEntry

RefOf(out, object) == IF out.kind = "return" THEN object ELSE NoRef

\* Guild snapshots: any subset of the roles, any role list for the cached member
InitGuild ==
    /\ owner_id \in UserIds
    /\ roles \in PartialMaps(RoleIds, PermInputs)
    /\ members \in {[u \in CachedAtInit |-> MemberOf(u, rs)] : rs \in SeqsUpTo(RoleIds, MaxRoles)}
    /\ guild_id = None
    /\ overwrites = <<>>
    /\ ret = NoCall
    /\ NoCallsYet

\* Channel snapshots: a guild channel with any overwrites for the everyone role,
\* two roles and the cached member, or a DM-style channel; the guild has all
\* the roles, or lacks one that members reference
InitChannel ==
    /\ owner_id \in UserIds
    /\ roles \in {[r \in RoleIds |-> IF r = GuildId THEN e ELSE 0] : e \in {0, 1}}
                 \cup {[r \in RoleIds \ {3} |-> 0]}
    /\ members \in {[u \in CachedAtInit |-> MemberOf(u, rs)] :
                        rs \in SeqsUpTo(RoleIds \ {GuildId}, MaxRoles)}
    /\ \/ /\ guild_id = GuildId
          /\ \E ro \in PartialMaps(RoleIds, OverwriteValues({0, 1})),
                mo \in PartialMaps(CachedAtInit, OverwriteValues(OverwriteInputs)) :
                overwrites = [k \in DOMAIN ro \cup DOMAIN mo |->
                                 IF k \in DOMAIN ro THEN ro[k] ELSE mo[k]]
       \/ /\ guild_id = None
          /\ overwrites = <<>>
    /\ ret = NoCall
    /\ NoCallsYet

\* guild.get_permissions(member) with a cached GuildMember
GuildGetPermissionsOfMember ==
    \E u \in DOMAIN members, resp \in ApiResponses :
        LET r == Guild_get_permissions([kind |-> "member", id |-> u], resp)
        IN  /\ ret' = Called("Guild.get_permissions", u, r.out)
            /\ members' = r.members
            /\ sent' = <<>>
            /\ ref' = RefOf(r.out, GuildResultRef)
            /\ UNCHANGED <<owner_id, roles, guild_id, overwrites>>
            /\ UNCHANGED iterVars
            /\ UNCHANGED objectVars

\* guild.get_permissions(user id)
GuildGetPermissionsOfId ==
    \E u \in UserIds, resp \in ApiResponses :
        LET r == Guild_get_permissions([kind |-> "snowflake", id |-> u], resp)
        IN  /\ ret' = Called("Guild.get_permissions", u, r.out)
            /\ members' = r.members
            /\ sent' = MemberRequest(u)
            /\ ref' = RefOf(r.out, GuildResultRef)
            /\ UNCHANGED <<owner_id, roles, guild_id, overwrites>>
            /\ UNCHANGED iterVars
            /\ UNCHANGED objectVars

\* channel.get_permissions(user)
ChannelGetPermissions ==
    \E u \in UserIds, resp \in ApiResponses :
        LET r == Channel_get_permissions(u, resp)
        IN  /\ ret' = Called("Channel.get_permissions", u, r.out)
            /\ members' = r.members
            /\ sent' = IF guild_id = None THEN <<>> ELSE MemberRequest(u)
            /\ ref' = RefOf(r.out, ChannelResultRef)
            /\ UNCHANGED <<owner_id, roles, guild_id, overwrites>>
            /\ UNCHANGED iterVars
            /\ UNCHANGED objectVars

\* the caller updates the PermissionValue it was returned (value += v, or
\* value.value = v): whatever else is that same object changes with it
MutateResult ==
    \E v \in PermInputs :
        /\ ret.op \in {"Guild.get_permissions", "Channel.get_permissions", "mutated"}
        /\ ret.kind = "return"
        /\ ref[1] \in {"new", "role"}
        /\ ret' = [ret EXCEPT !.op = "mutated", !.value = v]
        /\ roles' = IF ref[1] = "role" /\ ref[2] \in DOMAIN roles
                     THEN [roles EXCEPT ![ref[2]] = v]
                     ELSE roles
        /\ sent' = <<>>
        /\ UNCHANGED <<owner_id, members, guild_id, overwrites, ref>>
        /\ UNCHANGED iterVars
        /\ UNCHANGED objectVars

\* Snapshots for the calls and what the caller does with the result: a guild
\* with all its roles, a guild channel or a DM-style one
InitPure ==
    /\ owner_id \in UserIds
    /\ roles \in [RoleIds -> {0, 1}]
    /\ members \in {[u \in CachedAtInit |-> MemberOf(u, rs)] :
                        rs \in SeqsUpTo(RoleIds \ {GuildId}, MaxRoles)}
    /\ guild_id \in {None, GuildId}
    /\ overwrites \in PartialMaps({GuildId}, OverwriteValues({0, 1}))
    /\ ret = NoCall
    /\ NoCallsYet

\* guild.create_role()
GuildCreateRole ==
    \E created \in CreatedRoleIds :
        /\ ret' = Called("Guild.create_role", None, Return(created))
        /\ roles' = Guild_create_role.roles
        /\ sent' = Guild_create_role.sent
        /\ ref' = NoRef
        /\ UNCHANGED <<owner_id, members, guild_id, overwrites>>
        /\ UNCHANGED iterVars
        /\ UNCHANGED objectVars

\* guild.delete_role(role), with a Role or a role id
GuildDeleteRole ==
    \E role \in RoleIds :
        /\ ret' = Called("Guild.delete_role", role, Return(None))
        /\ roles' = Guild_delete_role(role).roles
        /\ sent' = Guild_delete_role(role).sent
        /\ ref' = NoRef
        /\ UNCHANGED <<owner_id, members, guild_id, overwrites>>
        /\ UNCHANGED iterVars
        /\ UNCHANGED objectVars

\* guild.update_role(role, ...), with a Role or a role id
GuildUpdateRole ==
    \E role \in RoleIds :
        /\ ret' = Called("Guild.update_role", role, Return(role))
        /\ roles' = Guild_update_role(role).roles
        /\ sent' = Guild_update_role(role).sent
        /\ ref' = NoRef
        /\ UNCHANGED <<owner_id, members, guild_id, overwrites>>
        /\ UNCHANGED iterVars
        /\ UNCHANGED objectVars

\* role.delete() on a role of the guild
RoleDelete ==
    \E role \in DOMAIN roles :
        /\ ret' = Called("Role.delete", role, Return(None))
        /\ roles' = Role_delete(role).roles
        /\ sent' = Role_delete(role).sent
        /\ ref' = NoRef
        /\ UNCHANGED <<owner_id, members, guild_id, overwrites>>
        /\ UNCHANGED iterVars
        /\ UNCHANGED objectVars

\* A channel with up to MaxItems messages and no iterator yet
InitIter ==
    /\ owner_id = 4
    /\ roles = [r \in RoleIds |-> 0]
    /\ members = [u \in CachedAtInit |-> MemberOf(u, <<>>)]
    /\ guild_id = GuildId
    /\ overwrites = <<>>
    /\ ret = NoCall
    /\ sent = <<>>
    /\ ref = NoRef
    /\ iter = NoIterator
    /\ \E n \in 0..MaxItems : source = 1..n
    /\ trace = NoTrace
    /\ channel_type = GUILD_TEXT
    /\ entry = NoEntry

\* MessageIterator(client, channel, direction, bulk, before, after, chunk_size)
MessageIteratorInit ==
    \E direction \in {UP, DOWN}, bulk \in BOOLEAN, chunk_size \in 1..MaxChunk,
       before \in {None} \cup CursorInputs, after \in {None} \cup CursorInputs :
        LET r == MessageIterator_init(direction, bulk, before, after, chunk_size)
        IN  /\ ~iter.live
            /\ ret' = Called("MessageIterator.__init__", None, r.out)
            /\ sent' = r.sent
            /\ iter' = r.iter
            /\ trace' = [NoTrace EXCEPT !.direction0 = direction, !.before0 = before,
                                        !.after0 = after]
            /\ UNCHANGED <<source, ref>>
            /\ UNCHANGED snapshotVars
            /\ UNCHANGED objectVars

\* next(iterator): the API call made by fill(), if any, returns or raises;
\* what is returned (a message, or a list in bulk mode) goes to trace.log
MessageIteratorNext ==
    \E ok \in BOOLEAN :
        LET r == MessageIterator_next(iter, ok)
        IN  /\ iter.live
            /\ ret' = Called("MessageIterator.__next__", None,
                             IF r.out.kind = "return" THEN Return(None) ELSE r.out)
            /\ sent' = r.sent
            /\ iter' = r.iter
            /\ trace' = [trace EXCEPT
                   !.stopped = @ \/ (r.out.kind = "raise" /\ r.out.exc = "StopIteration"),
                   !.log = IF r.out.kind = "return" THEN Append(@, r.out.value) ELSE @,
                   !.delivered = @ \o r.page,
                   !.page = IF r.page # <<>> THEN r.page ELSE @]
            /\ UNCHANGED <<source, ref>>
            /\ UNCHANGED snapshotVars
            /\ UNCHANGED objectVars

\* iterator.fill() called by the user, whatever the buffer holds: the API
\* call returns or raises; the bool fill() returns is recorded as 1 or 0
MessageIteratorFill ==
    \E ok \in BOOLEAN :
        LET f == MessageIterator_fill(iter, ok)
        IN  /\ iter.live
            /\ ret' = Called("MessageIterator.fill", None,
                             IF f.raised THEN Raise("APIException")
                             ELSE Return(IF f.filled THEN 1 ELSE 0))
            /\ sent' = f.sent
            /\ iter' = f.iter
            /\ trace' = [trace EXCEPT
                   !.delivered = @ \o f.page,
                   !.page = IF f.page # <<>> THEN f.page ELSE @,
                   !.direct = TRUE]
            /\ UNCHANGED <<source, ref>>
            /\ UNCHANGED snapshotVars
            /\ UNCHANGED objectVars

\* someone posts a message to the channel: its id is newer than all others
PostMessage ==
    /\ iter.live
    /\ trace.posted < MaxPosts
    /\ source' = source \cup {1 + Cardinality(source)}
    /\ trace' = [trace EXCEPT !.posted = @ + 1]
    /\ UNCHANGED <<ret, sent, ref, iter>>
    /\ UNCHANGED snapshotVars
    /\ UNCHANGED objectVars

\* An audit log entry as AuditLogEntry.create leaves it: a cached target only
\* for member and webhook actions
InitAudit ==
    /\ owner_id = 4
    /\ roles \in {[r \in RoleIds |-> 0], [r \in {GuildId} |-> 0]}
    /\ members = [u \in CachedAtInit |-> MemberOf(u, <<>>)]
    /\ guild_id = GuildId
    /\ overwrites = <<>>
    /\ ret = NoCall
    /\ sent = <<>>
    /\ ref = NoRef
    /\ iter = NoIterator
    /\ source = {}
    /\ trace = NoTrace
    /\ channel_type = GUILD_TEXT
    /\ \E a \in AuditLogActionTypes, t \in TargetIds, g \in BOOLEAN, c \in BOOLEAN :
          /\ c => a \in MEMBER_ACTIONS \cup WEBHOOK_ACTIONS
          /\ entry = [action_type |-> a, target_id |-> t, guild_known |-> g,
                      cached |-> IF c THEN t ELSE None]

\* entry.target
AuditLogEntryTarget ==
    \E users \in UserLookups :
        LET r == AuditLogEntry_target(entry, users)
        IN  /\ entry # NoEntry
            /\ ret' = Called("AuditLogEntry.target", entry.action_type, r.out)
            /\ ref' = r.ref
            /\ sent' = <<>>
            /\ UNCHANGED <<entry, channel_type>>
            /\ UNCHANGED snapshotVars
            /\ UNCHANGED iterVars

NextAudit == AuditLogEntryTarget

SpecAudit == InitAudit /\ [][NextAudit]_vars

\* A channel of any type, the bot being a cached member of its guild or not
\* cached yet: DM and group DM channels have no guild; the everyone role and
\* role 2 carry the guarding permissions, and the channel may overwrite them
\* for everyone
InitOps ==
    /\ owner_id \in UserIds
    /\ roles \in {[r \in {GuildId, 2} |-> IF r = GuildId THEN e ELSE q] :
                      e \in GuardInputs, q \in {0, MANAGE_MESSAGES}}
                 \cup {[r \in {GuildId} |-> e] : e \in GuardInputs}
    /\ members \in {[u \in cached |-> MemberOf(u, rs)] :
                        rs \in {<<>>, <<2>>}, cached \in {{Me}, {}}}
    /\ channel_type \in ChannelTypes
    /\ guild_id = (IF is_dm(channel_type) THEN None ELSE GuildId)
    /\ overwrites \in IF guild_id = None THEN {<<>>}
                      ELSE PartialMaps({GuildId}, OverwriteValues({0, MANAGE_MESSAGES}))
    /\ ret = NoCall
    /\ sent = <<>>
    /\ ref = NoRef
    /\ iter = NoIterator
    /\ source = {}
    /\ trace = NoTrace
    /\ entry = NoEntry

\* channel.delete_messages(messages) with the messages 1..n
ChannelDeleteMessages ==
    \E n \in MessageCounts, resp \in ApiResponses, plain \in BOOLEAN :
        LET r == Channel_delete_messages([i \in 1..n |-> i], resp, plain)
        IN  /\ ret' = Called("Channel.delete_messages", n, r.out)
            /\ members' = r.members
            /\ sent' = r.sent
            /\ ref' = NoRef
            /\ UNCHANGED <<owner_id, roles, guild_id, overwrites>>
            /\ UNCHANGED iterVars
            /\ UNCHANGED objectVars

\* channel.delete()
ChannelDelete ==
    \E resp \in ApiResponses :
        LET r == Channel_delete(resp)
        IN  /\ ret' = Called("Channel.delete", None, r.out)
            /\ members' = r.members
            /\ sent' = r.sent
            /\ ref' = NoRef
            /\ UNCHANGED <<owner_id, roles, guild_id, overwrites>>
            /\ UNCHANGED iterVars
            /\ UNCHANGED objectVars

\* channel.set_nsfw(...), set_bitrate(...), set_user_limit(...),
\* set_parent(...) or set_slowmode(...)
ChannelSet ==
    \E setter \in Setters :
        LET r == Channel_set(setter)
        IN  /\ ret' = Called(setter, None, r.out)
            /\ sent' = r.sent
            /\ ref' = NoRef
            /\ UNCHANGED snapshotVars
            /\ UNCHANGED iterVars
            /\ UNCHANGED objectVars

NextOps == ChannelDeleteMessages \/ ChannelDelete \/ ChannelSet

SpecOps == InitOps /\ [][NextOps]_vars

\* guild.get_member(user)
GuildGetMember ==
    \E u \in UserIds, resp \in ApiResponses :
        LET r == Guild_get_member(u, resp)
        IN  /\ ret' = Called("Guild.get_member", u, Return(None))
            /\ members' = r.members
            /\ sent' = MemberRequest(u)
            /\ ref' = IF r.member = NoMember THEN NoRef ELSE <<"member", r.member.id>>
            /\ UNCHANGED <<owner_id, roles, guild_id, overwrites>>
            /\ UNCHANGED iterVars
            /\ UNCHANGED objectVars

NextMember == GuildGetMember

SpecMember == InitGuild /\ [][NextMember]_vars

\* overwrite.save() on an overwrite of the channel
PermissionOverwriteSave ==
    \E id \in DOMAIN overwrites :
        LET r == PermissionOverwrite_save(StoredOverwrite(id))
        IN  /\ ret' = Called("PermissionOverwrite.save", id, Return(None))
            /\ overwrites' = r.overwrites
            /\ sent' = r.sent
            /\ ref' = r.ref
            /\ UNCHANGED <<owner_id, roles, members, guild_id>>
            /\ UNCHANGED iterVars
            /\ UNCHANGED objectVars

\* overwrite.delete() on an overwrite of the channel
PermissionOverwriteDelete ==
    \E id \in DOMAIN overwrites :
        LET r == PermissionOverwrite_delete(StoredOverwrite(id))
        IN  /\ ret' = Called("PermissionOverwrite.delete", id, Return(None))
            /\ overwrites' = r.overwrites
            /\ sent' = r.sent
            /\ ref' = r.ref
            /\ UNCHANGED <<owner_id, roles, members, guild_id>>
            /\ UNCHANGED iterVars
            /\ UNCHANGED objectVars

\* channel.create_overwrite(entity, allow, deny)
ChannelCreateOverwrite ==
    \E entity \in OverwriteEntities, allow \in {0, 1}, deny \in {0, 1} :
        LET r == Channel_create_overwrite(entity, allow, deny)
        IN  /\ ret' = Called("Channel.create_overwrite", entity, Return(None))
            /\ overwrites' = r.overwrites
            /\ sent' = r.sent
            /\ ref' = r.ref
            /\ UNCHANGED <<owner_id, roles, members, guild_id>>
            /\ UNCHANGED iterVars
            /\ UNCHANGED objectVars

OverwriteOps == PermissionOverwriteSave \/ PermissionOverwriteDelete \/ ChannelCreateOverwrite

NextOverwrites == OverwriteOps \/ ChannelGetPermissions

SpecOverwrites == InitPure /\ [][NextOverwrites]_vars

NextGuild == GuildGetPermissionsOfMember \/ GuildGetPermissionsOfId

NextChannel == ChannelGetPermissions

NextPure == NextGuild \/ NextChannel \/ MutateResult

NextRoles == GuildCreateRole \/ GuildDeleteRole \/ GuildUpdateRole \/ RoleDelete

NextIter == MessageIteratorInit \/ MessageIteratorNext \/ MessageIteratorFill \/ PostMessage

SpecGuild == InitGuild /\ [][NextGuild]_vars

SpecChannel == InitChannel /\ [][NextChannel]_vars

SpecPure == InitPure /\ [][NextPure]_vars

SpecRoles == InitGuild /\ [][NextRoles]_vars

SpecIter == InitIter /\ [][NextIter]_vars

Init == InitGuild \/ InitChannel \/ InitPure \/ InitIter \/ InitAudit \/ InitOps

Next == NextPure \/ NextRoles \/ NextIter \/ NextAudit \/ NextOps \/ NextMember
            \/ NextOverwrites

Spec == Init /\ [][Next]_vars

-----------------------------------------------------------------------------
(* Properties of Guild.get_permissions, checked under SpecGuild *)

\* the last call was guild.get_permissions for a user that is a member
GuildCallFor(u) ==
    /\ ret.op = "Guild.get_permissions"
    /\ ret.arg = u
    /\ u \in DOMAIN members

Outcome == [kind |-> ret.kind, value |-> ret.value, exc |-> ret.exc]

\* the bits of the permissions of the roles in `ids` that the guild has
RoleBits(ids) == UNION {BitsOf(roles[r]) : r \in ids \cap DOMAIN roles}

\* C1: for the guild owner Guild.get_permissions returns exactly ADMINISTRATOR,
\* whatever roles the owner holds and whatever those roles (if the guild has
\* them at all) permit.
C1_OwnerIsAdministrator ==
    \A u \in UserIds :
        (GuildCallFor(u) /\ u = owner_id) => Outcome = Return(ADMINISTRATOR)

\* the owner holds two roles whose union is not ADMINISTRATOR
C1_Witness ==
    /\ GuildCallFor(owner_id)
    /\ Len(members[owner_id].roles) = 2
    /\ Range(members[owner_id].roles) \cup {GuildId} \subseteq DOMAIN roles
    /\ RoleBits(Range(members[owner_id].roles) \cup {GuildId}) = {0, 1}
    /\ Outcome = Return(ADMINISTRATOR)

\* C2: for a member that is not the owner, whose roles and the everyone role
\* are all in guild.roles, Guild.get_permissions returns the value whose bits
\* are exactly the bits of the everyone role and of the member's roles.
C2_NonOwnerIsUnion ==
    \A u \in UserIds :
        (/\ GuildCallFor(u)
         /\ u # owner_id
         /\ Range(members[u].roles) \cup {GuildId} \subseteq DOMAIN roles)
        => /\ ret.kind = "return"
           /\ BitsOf(ret.value) = RoleBits(Range(members[u].roles) \cup {GuildId})

\* the everyone role and two roles of the member carry three different bits
C2_Witness ==
    \E u \in UserIds :
        /\ GuildCallFor(u)
        /\ u # owner_id
        /\ members[u].roles = <<2, 3>>
        /\ RoleIds \subseteq DOMAIN roles
        /\ roles[GuildId] = 1 /\ roles[2] = 2 /\ roles[3] = 8
        /\ ret.kind = "return"
        /\ ret.value = 11

\* C9: the outcome of Guild.get_permissions is the same for every list of
\* role ids with the same set of elements as member.roles (a permutation of
\* it, or a list that repeats some of its ids).
C9_GuildIgnoresRoleOrder ==
    \A u \in UserIds :
        GuildCallFor(u) =>
            \A ids \in SeqsUpTo(RoleIds, MaxRoles) :
                Range(ids) = Range(members[u].roles)
                => GuildPermissionsOf([members[u] EXCEPT !.roles = ids]) = Outcome

\* a non-owner holds two roles with different permissions, in either order
C9_Witness ==
    \E u \in UserIds :
        /\ GuildCallFor(u)
        /\ u # owner_id
        /\ members[u].roles = <<3, 2>>
        /\ RoleIds \subseteq DOMAIN roles
        /\ roles[GuildId] = 0 /\ roles[2] = 1 /\ roles[3] = 2
        /\ Outcome = Return(3)

\* a non-owner member references a role id that guild.roles does not have
MissingRoleCall(u) ==
    /\ GuildCallFor(u)
    /\ u # owner_id
    /\ \E r \in Range(members[u].roles) : r \notin DOMAIN roles

\* C10 as stated: a non-owner member with a role id absent from guild.roles
\* makes Guild.get_permissions fail with a NotFound error.
C10_Original ==
    \A u \in UserIds :
        MissingRoleCall(u) => (ret.kind = "raise" /\ ret.exc = "NotFound")

\* C10 amended: a non-owner member with a role id absent from guild.roles
\* makes Guild.get_permissions fail with an AttributeError (the None that
\* roles.get returns is dereferenced); the role is not skipped and no
\* permission value is returned.
C10_MissingRoleRaises ==
    \A u \in UserIds :
        MissingRoleCall(u) => Outcome = Raise("AttributeError")

\* the member holds a role the guild has, with permissions, and one it lacks
C10_Witness ==
    \E u \in UserIds :
        /\ MissingRoleCall(u)
        /\ members[u].roles = <<2, 3>>
        /\ DOMAIN roles = {GuildId, 2}
        /\ roles[2] = 1
        /\ Outcome = Raise("AttributeError")

-----------------------------------------------------------------------------
(* Properties of Channel.get_permissions, checked under SpecChannel *)

\* the last call was channel.get_permissions on a guild channel, for a user
\* whose member was found
ChannelCallFor(u) ==
    /\ ret.op = "Channel.get_permissions"
    /\ ret.arg = u
    /\ guild_id # None
    /\ u \in DOMAIN members

\* ... and the call returned a value
ChannelResultFor(u) == ChannelCallFor(u) /\ ret.kind = "return"

IsOverwritten(key) == key \in DOMAIN overwrites

Allows(key, b) == IsOverwritten(key) /\ b \in BitsOf(overwrites[key].allow)

Denies(key, b) == IsOverwritten(key) /\ b \in BitsOf(overwrites[key].deny)

\* every bit a snapshot of the model mentions
AllBits ==
    UNION {BitsOf(v) : v \in PermInputs \cup OverwriteInputs \cup {ADMINISTRATOR}}

\* the ids whose overwrite applies to a member, in the order of the layering
LayerKeys(member) == <<guild_id>> \o member.roles \o <<member.id>>

\* C3: on a channel without a guild Channel.get_permissions returns
\* ADMINISTRATOR for every user, cached or not, and fetches no member.
C3_DMIsAdministrator ==
    (ret.op = "Channel.get_permissions" /\ guild_id = None)
    => (Outcome = Return(ADMINISTRATOR) /\ DOMAIN members = CachedAtInit)

\* a DM-style channel was asked about a user that is in no guild.members
C3_Witness ==
    /\ ret.op = "Channel.get_permissions"
    /\ guild_id = None
    /\ ret.arg \notin DOMAIN members
    /\ Outcome = Return(ADMINISTRATOR)

\* bit b of the reference layering over `base`: the last overwrite of the
\* layering that mentions b decides it (set if it allows b, else cleared),
\* and the base value decides it when no overwrite mentions b
RefHasBit(base, keys, b) ==
    LET at == {i \in 1..Len(keys) : Allows(keys[i], b) \/ Denies(keys[i], b)}
    IN  IF at = {} THEN b \in BitsOf(base)
        ELSE LET last == CHOOSE i \in at : \A j \in at : j <= i
             IN  Allows(keys[last], b)

\* C4: on a guild channel Channel.get_permissions equals the layering of the
\* overwrites of the everyone role, then of member.roles in list order, then
\* of the member, over Guild.get_permissions(member), each overwrite clearing
\* its deny bits and then setting its allow bits; when Guild.get_permissions
\* raises, so does the call.
C4_LayeringIsReference ==
    \A u \in UserIds :
        ChannelCallFor(u) =>
            LET base == GuildPermissionsOf(members[u])
            IN  IF base.kind = "raise" THEN Outcome = base
                ELSE /\ ret.kind = "return"
                     /\ BitsOf(ret.value) \subseteq AllBits
                     /\ \A b \in AllBits :
                            b \in BitsOf(ret.value)
                            <=> RefHasBit(base.value, LayerKeys(members[u]), b)

\* all three steps have an overwrite, and each changes the value
C4_Witness ==
    \E u \in UserIds :
        /\ ChannelCallFor(u)
        /\ u # owner_id
        /\ members[u].roles = <<2>>
        /\ roles[GuildId] = 1
        /\ IsOverwritten(GuildId) /\ overwrites[GuildId] = [allow |-> 0, deny |-> 1]
        /\ IsOverwritten(2) /\ overwrites[2] = [allow |-> 1, deny |-> 0]
        /\ IsOverwritten(u) /\ overwrites[u] = [allow |-> 8, deny |-> 1]
        /\ Outcome = Return(8)

\* C5: the overwrite keyed by the member's user id wins: a bit it allows is
\* in the result, a bit it denies without allowing is not, whatever the base
\* value, the everyone overwrite and the role overwrites say.
C5_MemberOverwriteWins ==
    \A u \in UserIds :
        ChannelResultFor(u) =>
            \A b \in AllBits :
                /\ Allows(u, b) => b \in BitsOf(ret.value)
                /\ (Denies(u, b) /\ ~Allows(u, b)) => b \notin BitsOf(ret.value)

\* everyone allows bit 0, the member's role denies it, the member's own
\* overwrite allows it, and the result has it
C5_Witness ==
    \E u \in UserIds :
        /\ ChannelResultFor(u)
        /\ members[u].roles = <<2>>
        /\ Allows(GuildId, 0) /\ ~Denies(GuildId, 0)
        /\ Denies(2, 0) /\ ~Allows(2, 0)
        /\ Allows(u, 0)
        /\ 0 \in BitsOf(ret.value)

\* C6: a role overwrite overrides the everyone overwrite: a bit the everyone
\* overwrite denies and a held role's overwrite allows is in the result,
\* provided no other held role's overwrite and not the member's own denies it.
C6_RoleOverridesEveryone ==
    \A u \in UserIds :
        ChannelResultFor(u) =>
            \A b \in AllBits, r \in Range(members[u].roles) :
                (/\ Denies(guild_id, b)
                 /\ Allows(r, b)
                 /\ \A q \in Range(members[u].roles) \ {r} : ~Denies(q, b)
                 /\ ~Denies(u, b))
                => b \in BitsOf(ret.value)

\* the base value is bit 0 alone, everyone denies it, the role allows it
C6_Witness ==
    \E u \in UserIds :
        /\ ChannelCallFor(u)
        /\ GuildPermissionsOf(members[u]) = Return(1)
        /\ members[u].roles = <<2>>
        /\ Denies(GuildId, 0) /\ ~Allows(GuildId, 0)
        /\ Allows(2, 0) /\ ~Denies(2, 0)
        /\ ~IsOverwritten(u)
        /\ Outcome = Return(1)

\* C7: within one overwrite deny is applied before allow: a bit that one
\* applied overwrite both allows and denies is in the result, provided no
\* other overwrite applied after it denies the bit.
C7_AllowWinsOverOwnDeny ==
    \A u \in UserIds :
        ChannelResultFor(u) =>
            LET keys == LayerKeys(members[u])
            IN  \A b \in AllBits, i \in 1..Len(keys) :
                    (/\ Allows(keys[i], b)
                     /\ Denies(keys[i], b)
                     /\ \A j \in (i + 1)..Len(keys) :
                            keys[j] # keys[i] => ~Denies(keys[j], b))
                    => b \in BitsOf(ret.value)

\* a role overwrite both allows and denies bit 0, which the base lacks and no
\* other overwrite mentions
C7_Witness ==
    \E u \in UserIds :
        /\ ChannelCallFor(u)
        /\ GuildPermissionsOf(members[u]) = Return(0)
        /\ members[u].roles = <<2>>
        /\ Allows(2, 0) /\ Denies(2, 0)
        /\ ~Allows(GuildId, 0) /\ ~Allows(u, 0)
        /\ Outcome = Return(1)

IsPermutation(s, t) ==
    /\ Len(s) = Len(t)
    /\ \A x \in Range(s) \cup Range(t) :
           Cardinality({i \in 1..Len(s) : s[i] = x})
           = Cardinality({i \in 1..Len(t) : t[i] = x})

\* C8 as stated: Channel.get_permissions gives the same outcome for every
\* ordering of the role ids in member.roles.
C8_Original ==
    \A u \in UserIds :
        ChannelCallFor(u) =>
            \A ids \in SeqsUpTo(RoleIds, MaxRoles) :
                IsPermutation(ids, members[u].roles)
                => ChannelPermissionsOf([members[u] EXCEPT !.roles = ids]) = Outcome

-----------------------------------------------------------------------------
(* Claims about what a resolution changes *)

\* a step that is a call of Guild.get_permissions or Channel.get_permissions
ResolutionCall == NextGuild \/ NextChannel

\* guild.members grew by exactly the member fetched for an uncached user
MemberCacheFilled ==
    \E u \in UserIds \ DOMAIN members :
        /\ Len(sent') = 1
        /\ sent'[1] = [api |-> "guilds_members_get", guild |-> GuildId, id |-> u]
        /\ DOMAIN members' = DOMAIN members \cup {u}
        /\ \A w \in DOMAIN members : members'[w] = members[w]

\* C11 as stated: a resolution call leaves guild.members, guild.roles and the
\* channel's overwrites unchanged, and mutating the returned value afterwards
\* changes no role's or overwrite's stored permissions.
C11_Original ==
    [][/\ ResolutionCall =>
            /\ members' = members
            /\ roles' = roles
            /\ overwrites' = overwrites
       /\ MutateResult => roles' = roles /\ overwrites' = overwrites]_vars

\* C11: a resolution call leaves guild.roles and the channel's overwrites
\* unchanged; it leaves guild.members unchanged when the user's member is
\* cached, and otherwise adds the fetched member to guild.members (one
\* guilds_members_get request) and changes no other entry. The returned value
\* is no role's or overwrite's stored object, so mutating it afterwards changes
\* no role's or overwrite's stored permissions.
C11_PureExceptMemberCache ==
    [][/\ ResolutionCall =>
            /\ roles' = roles
            /\ overwrites' = overwrites
            /\ members' = members \/ MemberCacheFilled
            /\ ret'.kind = "return" => ref'[1] \in {"new", "constant"}
       /\ MutateResult =>
            /\ roles' = roles
            /\ overwrites' = overwrites
            /\ members' = members]_vars

\* the member of user 5 was fetched and cached by a call, and the caller has
\* changed the value a call returned to a value some role could hold
C11_Witness ==
    /\ 5 \in DOMAIN members
    /\ ret.op = "mutated"
    /\ ret.value = 1
    /\ \E r \in DOMAIN roles : roles[r] = 0

-----------------------------------------------------------------------------
(* Claims about MessageIterator *)

InitCall == ret.op = "MessageIterator.__init__"

NoCursorDown ==
    /\ trace.direction0 = DOWN
    /\ trace.before0 = None
    /\ trace.after0 = None

\* C12: constructing a MessageIterator with direction DOWN and neither before
\* nor after fails with an exception and leaves no iterator; with direction UP
\* and any cursors, or DOWN and at least one of before / after, construction
\* succeeds.
C12_DownNeedsCursor ==
    InitCall =>
        IF NoCursorDown
        THEN ret.kind = "raise" /\ ret.exc = "Exception" /\ ~iter.live
        ELSE ret.kind = "return" /\ iter.live /\ iter.direction = trace.direction0

\* a DOWN iterator without cursors was asked for and refused
C12_Witness == InitCall /\ NoCursorDown /\ ret.kind = "raise"

ReadCall == ret.op = "MessageIterator.__next__"

\* C13 as stated: once a fetch has returned zero items (the read signalled
\* StopIteration), no later read returns an item, whatever the source holds
\* afterwards.
C13_Original == trace.stopped => ~(ReadCall /\ ret.kind = "return")

\* the iterator has been used through reads only: fill() was never called
\* directly
ReadsOnly == ~trace.direct

\* an UP iterator over a source nobody posts to, made without an after cursor
\* and used through reads only
StaticUp ==
    /\ iter.live
    /\ iter.direction = UP
    /\ trace.after0 = None
    /\ trace.posted = 0
    /\ ReadsOnly

\* the items of the source the iterator was made to go through
Items == {m \in source : trace.before0 = None \/ m < trace.before0}

NumBatches == (Cardinality(Items) + iter.chunk_size - 1) \div iter.chunk_size

BatchSize(i) ==
    IF i * iter.chunk_size <= Cardinality(Items)
    THEN iter.chunk_size
    ELSE Cardinality(Items) - (i - 1) * iter.chunk_size

\* C14: for a static source of N items, page size k and direction UP, the
\* successive reads of a bulk iterator (nothing but reads being made on it)
\* return exactly ceil(N/k) batches, each
\* of k items except a last one of N mod k items when k does not divide N;
\* each batch is produced by exactly one fetch, and a read after the last
\* batch whose fetch succeeds signals StopIteration.
C14_BulkBatches ==
    [][(StaticUp /\ iter.bulk /\ MessageIteratorNext) =>
        /\ Len(trace'.log) <= NumBatches
        /\ \A i \in 1..Len(trace'.log) : Len(trace'.log[i]) = BatchSize(i)
        /\ ret'.kind = "return" => Len(sent') = 1 /\ iter'.buffer = <<>>
        /\ Len(trace.log) < NumBatches => ret'.exc # "StopIteration"
        /\ Len(trace.log) = NumBatches =>
              /\ ret'.kind = "raise"
              /\ Len(sent') = 1
              /\ ret'.exc \in {"StopIteration", "APIException"}]_vars

\* three items in pages of two were read as batches of 2 and 1, and the read
\* after them signalled exhaustion
C14_Witness ==
    /\ StaticUp /\ iter.bulk
    /\ Cardinality(Items) = 3
    /\ iter.chunk_size = 2
    /\ Len(trace.log) = 2
    /\ Len(trace.log[1]) = 2 /\ Len(trace.log[2]) = 1
    /\ ReadCall /\ ret.exc = "StopIteration"

IsPrefix(s, t) == Len(s) <= Len(t) /\ \A i \in 1..Len(s) : s[i] = t[i]

\* C15 as stated: a non-bulk UP iterator over a static source returns its
\* items in the order in which the fetches delivered them, page after page
\* and within each page from the page's first item to its last.
C15_Original == (StaticUp /\ ~iter.bulk) => IsPrefix(trace.log, trace.delivered)

\* a step that may fetch: a read, or fill() called directly
FetchStep == MessageIteratorNext \/ MessageIteratorFill

\* the fetch of this step delivered a page that was not empty
FetchedPage == FetchStep /\ trace'.delivered # trace.delivered

\* C16: after every non-empty fetch the cursor is the id of the last item:
\* for UP, before becomes the id of the last item of the page in the order
\* the fetch returned it; for DOWN the page is reversed and after becomes the
\* id of the last item after the reversal; the other cursor is unset. Every
\* fetch, made by a read or by a direct fill(), is issued with the cursors the
\* iterator holds at that moment, so the next fetch uses exactly that cursor.
C16_CursorAdvance ==
    [][/\ FetchedPage =>
            LET page == trace'.page
                reversed == Reverse(page)
            IN  IF iter.direction = UP
                THEN iter'.before = page[Len(page)] /\ iter'.after = None
                ELSE iter'.after = reversed[Len(reversed)] /\ iter'.before = None
       /\ (FetchStep /\ sent' # <<>>) =>
            /\ sent'[1].before = iter.before
            /\ sent'[1].after = iter.after]_vars

\* a DOWN iterator fetched a second page of two, asking for the messages
\* after the newest one of its first page
C16_Witness ==
    /\ iter.live /\ iter.direction = DOWN
    /\ Len(trace.delivered) = 4
    /\ Len(trace.page) = 2
    /\ sent # <<>>
    /\ sent[1].after = trace.delivered[1]
    /\ iter.after = trace.page[1]

Last(s) == s[Len(s)]

\* C17: a read fetches exactly when the buffer is empty, whether a read or a
\* direct fill() filled it. A non-bulk read that returns takes one item off
\* the buffer (the fetched page when it had to fetch), so a page of m items
\* serves m reads with one fetch; a bulk read that returns hands out the whole
\* buffer as one batch and leaves it empty.
C17_FetchOnlyWhenEmpty ==
    [][MessageIteratorNext =>
        /\ iter.buffer # <<>> => sent' = <<>>
        /\ iter.buffer = <<>> => Len(sent') = 1
        /\ (~iter.bulk /\ ret'.kind = "return") =>
              Len(iter'.buffer) + 1 = IF iter.buffer # <<>> THEN Len(iter.buffer)
                                      ELSE Len(trace'.page)
        /\ (iter.bulk /\ ret'.kind = "return") =>
              /\ iter'.buffer = <<>>
              /\ Len(Last(trace'.log)) = Len(trace'.page)]_vars

\* a page of two served two reads of a non-bulk iterator, the second without
\* a fetch
C17_Witness ==
    /\ iter.live /\ ~iter.bulk
    /\ ReadCall /\ ret.kind = "return"
    /\ sent = <<>>
    /\ iter.buffer = <<>>
    /\ Len(trace.page) = 2
    /\ Len(trace.log) = 2
    /\ Len(trace.delivered) = 2

\* C18: when the fetch raises during a read (or during a direct fill()), the
\* call raises that error after exactly one fetch attempt, and the iterator's
\* buffer and before / after cursors are what they were before the call;
\* nothing is returned.
C18_FetchErrorPropagates ==
    [][(FetchStep /\ ret'.exc = "APIException") =>
        /\ ret'.kind = "raise"
        /\ sent' = <<FillRequest(iter)>>
        /\ iter'.buffer = iter.buffer
        /\ iter'.before = iter.before
        /\ iter'.after = iter.after
        /\ trace'.log = trace.log]_vars

\* a fetch raised after the iterator had moved its cursor past a first page
C18_Witness ==
    /\ ReadCall /\ ret.exc = "APIException"
    /\ Len(sent) = 1
    /\ Len(trace.log) > 0
    /\ iter.before # None
    /\ iter.buffer = <<>>

\* C20: constructing a MessageIterator performs no fetch and leaves an empty
\* buffer, nothing delivered and no StopIteration signalled; nothing is
\* fetched until the iterator is read (or fill() is called on it), and a read
\* that directly follows construction fetches; every fetch, by a read or by
\* a direct fill(), is one request for chunk_size messages with the before /
\* after cursors the iterator holds when the call starts.
C20_Lazy ==
    [][/\ MessageIteratorInit =>
            /\ sent' = <<>>
            /\ iter'.buffer = <<>>
            /\ trace'.delivered = <<>>
            /\ ~trace'.stopped
       /\ (InitCall /\ MessageIteratorNext) => Len(sent') = 1
       /\ (trace.delivered = <<>> /\ trace'.delivered # <<>>) => FetchStep
       /\ (FetchStep /\ sent' # <<>>) =>
            /\ Len(sent') = 1
            /\ sent'[1].api = "channels_messages_list"
            /\ sent'[1].limit = iter.chunk_size
            /\ sent'[1].before = iter.before
            /\ sent'[1].after = iter.after]_vars

\* the first read of an iterator made with a before cursor fetched with that
\* cursor and its chunk_size
C20_Witness ==
    /\ ReadCall /\ ret.kind = "return"
    /\ Len(trace.log) = 1
    /\ trace.before0 # None
    /\ Len(sent) = 1
    /\ sent[1].before = trace.before0
    /\ sent[1].limit = iter.chunk_size
    /\ iter.chunk_size = MaxChunk

-----------------------------------------------------------------------------
(* Claims about the roles of a guild *)

\* C19 as stated: in every guild state, after construction and after any
\* role operations, guild.roles contains a role keyed by the guild's own id.
C19_Original == GuildId \in DOMAIN roles

\* C19: create_role, update_role, delete_role and Role.delete leave
\* guild.roles as it is, so a guild whose roles contain the role keyed by the
\* guild's own id still contains it, unchanged, after any sequence of them.
C19_EveryoneRolePreserved ==
    [][NextRoles =>
        /\ roles' = roles
        /\ GuildId \in DOMAIN roles =>
              GuildId \in DOMAIN roles' /\ roles'[GuildId] = roles[GuildId]]_vars

\* the deletion of the everyone role was requested and the role is still in
\* guild.roles
C19_Witness ==
    /\ ret.op = "Guild.delete_role"
    /\ ret.arg = GuildId
    /\ sent = <<RoleRequest("guilds_roles_delete", GuildId)>>
    /\ GuildId \in DOMAIN roles

-----------------------------------------------------------------------------
(* Claims about AuditLogEntry *)

TargetCall == ret.op = "AuditLogEntry.target"

HandledActions ==
    GUILD_ACTIONS \cup CHANNEL_ACTIONS \cup MEMBER_ACTIONS \cup ROLE_ACTIONS
        \cup WEBHOOK_ACTIONS \cup EMOJI_ACTIONS

\* C21: AuditLogEntry.target of an entry whose action type is in none of the
\* handled groups (guild, channel, member, role, webhook, emoji), such as an
\* invite or message action, returns None and raises no error, whether or not
\* the guild is known.
C21_UnhandledTargetIsNone ==
    (TargetCall /\ entry.action_type \notin HandledActions) =>
        /\ ret.kind = "return"
        /\ ref = NoRef

\* the target of an invite entry of an unknown guild was read
C21_Witness ==
    /\ TargetCall
    /\ entry.action_type \in INVITE_ACTIONS
    /\ ~entry.guild_known
    /\ ret.kind = "return"

-----------------------------------------------------------------------------
(* Claims about the channel's guarded operations *)

DeleteMessagesCall == ret.op = "Channel.delete_messages"

\* the messages the last delete_messages call was given
Passed == [i \in 1..ret.arg |-> i]

MemberFetch(u) == [api |-> "guilds_members_get", guild |-> GuildId, id |-> u]

\* what channel.get_permissions(me) gives in this state without asking the
\* API again: after a call that looked the bot up, what that call was given
BotInChannel == Channel_get_permissions(Me, [ok |-> FALSE, roles |-> <<>>]).out

\* the lookup of the bot's member the permission check of a call makes in
\* this state: one request when the channel has a guild and the bot is not
\* in guild.members
BotLookup ==
    IF guild_id # None /\ Me \notin DOMAIN members THEN <<MemberFetch(Me)>> ELSE <<>>

\* the lookup of the bot's member the last call started with, if it made one
LookupMade ==
    IF sent # <<>> /\ sent[1].api = "guilds_members_get" THEN <<sent[1]>> ELSE <<>>

\* the requests of `s` from position n + 1 on
Drop(s, n) == SubSeq(s, n + 1, Len(s))

\* the id lists of the requests, concatenated in call order
RECURSIVE IdsOf(_)
IdsOf(requests) ==
    IF requests = <<>> THEN <<>> ELSE Head(requests).ids \o IdsOf(Tail(requests))

BulkRoute ==
    /\ BotInChannel.kind = "return"
    /\ Can(BotInChannel.value, MANAGE_MESSAGES)
    /\ ret.arg > 2

\* C22 as stated, on a channel of a guild: delete_messages with no messages
\* makes no API call; when the bot has MANAGE_MESSAGES in the channel and more
\* than 2 messages are passed, the calls it makes are bulk-delete calls only,
\* whose id lists, concatenated in call order, are the passed ids in their
\* order; otherwise the calls it makes are one single-message delete call per
\* passed message, in order. (A call in which resolving the bot's permissions
\* raises is left aside.)
C22_Original ==
    (DeleteMessagesCall /\ guild_id # None) =>
        IF ret.arg = 0 THEN sent = <<>> /\ ret.kind = "return"
        ELSE IF ret.kind = "raise" THEN TRUE
        ELSE IF BulkRoute
        THEN /\ \A i \in 1..Len(sent) : sent[i].api = "channels_messages_delete_bulk"
             /\ IdsOf(sent) = Passed
        ELSE /\ Len(sent) = ret.arg
             /\ \A i \in 1..Len(sent) :
                    /\ sent[i].api = "channels_messages_delete"
                    /\ sent[i].ids = <<Passed[i]>>

\* C22: delete_messages with no messages makes no API call, on any channel.
\* With messages, on a channel of a guild, it first resolves the bot's
\* permissions in the channel, which asks the API for the bot's member (one
\* guilds_members_get) when the member is not cached; when that resolution
\* raises, the error is raised and no delete call is made. Otherwise, when the
\* bot has MANAGE_MESSAGES in the channel and more than 2 messages are passed,
\* the calls that follow are bulk-delete calls only, whose id lists,
\* concatenated in call order, are the passed ids in their order; else they
\* are one single-message delete call per passed message, in order, and no
\* bulk call.
C22_DeleteRoute ==
    /\ [](DeleteMessagesCall =>
            LET k == Len(LookupMade)
            IN  IF ret.arg = 0 THEN sent = <<>> /\ ret.kind = "return"
                ELSE IF guild_id = None THEN TRUE
                ELSE IF BotInChannel.kind = "raise"
                THEN Len(sent) = k /\ ret.kind = "raise" /\ ret.exc = BotInChannel.exc
                ELSE /\ ret.kind = "return"
                     /\ IF BulkRoute
                        THEN /\ \A i \in (k + 1)..Len(sent) :
                                    sent[i].api = "channels_messages_delete_bulk"
                             /\ IdsOf(Drop(sent, k)) = Passed
                        ELSE /\ Len(sent) = k + ret.arg
                             /\ \A i \in 1..ret.arg :
                                    /\ sent[k + i].api = "channels_messages_delete"
                                    /\ sent[k + i].ids = <<Passed[i]>>)
    /\ [][(DeleteMessagesCall' /\ guild_id # None) =>
            LookupMade' = (IF ret'.arg = 0 THEN <<>> ELSE BotLookup)]_vars

\* a bot that was not cached was looked up, found to have MANAGE_MESSAGES but
\* no administrator permission, and deleted three messages with one bulk call
C22_Witness ==
    /\ DeleteMessagesCall
    /\ guild_id # None
    /\ ret.arg = 3
    /\ BulkRoute
    /\ BotInChannel.value = MANAGE_MESSAGES
    /\ Len(sent) = 2
    /\ sent[1] = MemberFetch(Me)
    /\ sent[2].api = "channels_messages_delete_bulk"

DeleteCall == ret.op = "Channel.delete"

\* what guild.get_permissions(me) gives in this state without asking the API
\* again: after a call that looked the bot up, what that call was given
BotInGuild == Guild_get_permissions([kind |-> "snowflake", id |-> Me],
                                    [ok |-> FALSE, roles |-> <<>>]).out

\* C23: Channel.delete on a guild (non-DM) channel raises AssertionError and
\* sends no delete request when the bot does not have MANAGE_CHANNELS in the
\* channel's guild; when it has, exactly one delete request for this channel
\* is sent. The only other request is the lookup of the bot's member, made
\* first when the member is not cached. (When resolving the bot's permissions
\* raises, that error is raised and no delete request is sent.)
C23_DeleteNeedsManageChannels ==
    [][(ChannelDelete /\ ~is_dm(channel_type)) =>
        LET deletes == Drop(sent', Len(BotLookup))
        IN  /\ IsPrefix(BotLookup, sent')
            /\ IF BotInGuild'.kind = "raise"
               THEN ret'.kind = "raise" /\ ret'.exc = BotInGuild'.exc /\ deletes = <<>>
               ELSE IF Can(BotInGuild'.value, MANAGE_CHANNELS)
               THEN /\ ret'.kind = "return"
                    /\ deletes = <<[api |-> "channels_delete", channel |-> ChannelId]>>
               ELSE /\ ret'.kind = "raise" /\ ret'.exc = "AssertionError"
                    /\ deletes = <<>>]_vars

\* a bot that was not cached was looked up, found to have only MANAGE_MESSAGES
\* in the guild, and was refused the deletion of a text channel
C23_Witness ==
    /\ DeleteCall
    /\ channel_type = GUILD_TEXT
    /\ BotInGuild.kind = "return"
    /\ BotInGuild.value = MANAGE_MESSAGES
    /\ ret.exc = "AssertionError"
    /\ sent = <<MemberFetch(Me)>>

\* C29 as stated: every bulk-delete request delete_messages sends carries at
\* least 2 and at most 100 message ids, for every number of passed messages
\* greater than 2.
C29_Original ==
    DeleteMessagesCall =>
        \A i \in 1..Len(sent) :
            sent[i].api = "channels_messages_delete_bulk" =>
                Len(sent[i].ids) >= 2 /\ Len(sent[i].ids) <= 100

SetterCall == ret.op \in Setters

\* the channels the claim lets each setter through: a guild text channel, a
\* voice channel, a channel that belongs to a guild
Qualifies(setter) ==
    CASE setter \in {"set_nsfw", "set_slowmode"} -> channel_type = GUILD_TEXT
      [] setter \in {"set_bitrate", "set_user_limit"} -> is_voice(channel_type)
      [] setter = "set_parent" -> guild_id # None

\* C24 as stated: each type-restricted setter raises AssertionError and sends
\* no modify request when the channel does not qualify, and otherwise sends
\* exactly one modify request carrying only its field: set_nsfw and
\* set_slowmode need a guild text channel, set_bitrate and set_user_limit a
\* voice channel, set_parent a channel that belongs to a guild.
C24_Original ==
    SetterCall =>
        IF Qualifies(ret.op)
        THEN /\ ret.kind = "return"
             /\ sent = <<[api |-> "channels_modify", channel |-> ChannelId,
                          fields |-> {FieldOf(ret.op)}]>>
        ELSE /\ ret.kind = "raise" /\ ret.exc = "AssertionError"
             /\ sent = <<>>

-----------------------------------------------------------------------------
(* Claims about the owner in a channel *)

\* C25 as stated: for the guild owner, Channel.get_permissions on a channel of
\* the guild returns a value that contains the administrator permission,
\* whatever everyone, role or member overwrites the channel carries.
C25_Original ==
    (/\ ret.op = "Channel.get_permissions"
     /\ guild_id # None
     /\ ret.arg = owner_id
     /\ ret.kind = "return") =>
        BitsOf(ADMINISTRATOR) \subseteq BitsOf(ret.value)

-----------------------------------------------------------------------------
(* Claims about what the iterator covers *)

\* a non-bulk iterator over a source nobody posts to
StaticNonBulk == iter.live /\ ~iter.bulk /\ trace.posted = 0

\* such an iterator, used through reads only
StaticSingle == StaticNonBulk /\ ReadsOnly

NoDuplicates(s) == \A i, j \in 1..Len(s) : i # j => s[i] # s[j]

\* the messages within the bounds the iterator was made with
WithinBounds ==
    {m \in source : /\ trace.before0 = None \/ m < trace.before0
                    /\ trace.after0 = None \/ m > trace.after0}

\* the iterator was made with the cursor of its direction only: before (or
\* none) for UP, after for DOWN
OwnCursorOnly ==
    IF iter.direction = UP THEN trace.after0 = None ELSE trace.before0 = None

\* C26 as stated: over a static source a non-bulk iterator of either
\* direction, used through reads only, has returned, when it signals
\* exhaustion, every item within the cursors it was started with exactly once.
C26_Original ==
    (StaticSingle /\ trace.stopped) =>
        /\ NoDuplicates(trace.log)
        /\ Range(trace.log) = WithinBounds

\* C26: over a static source a non-bulk iterator never returns an item twice,
\* whatever cursors it was made with; made with the cursor of its direction
\* only (UP with before or no cursor, DOWN with after), it returns only items
\* beyond that cursor and, when it has been used through reads only (a direct
\* fill() drops what the buffer still holds) and signals exhaustion, has
\* returned every one of them, for every page size.
C26_EachItemOnce ==
    StaticNonBulk =>
        /\ NoDuplicates(trace.log)
        /\ OwnCursorOnly =>
              /\ Range(trace.log) \subseteq WithinBounds
              /\ (ReadsOnly /\ trace.stopped) => Range(trace.log) = WithinBounds

\* a DOWN iterator with pages of one returned both messages after its cursor
\* and then signalled exhaustion
C26_Witness ==
    /\ StaticSingle /\ OwnCursorOnly
    /\ iter.direction = DOWN
    /\ iter.chunk_size = 1
    /\ Len(trace.log) = 2
    /\ trace.stopped

\* C27: after any non-empty fetch, by a read or by a direct fill(), exactly
\* one cursor is set: before (and not after) for UP, after (and not before)
\* for DOWN; so every fetch that follows a non-empty one is issued without the
\* bound of the other side, whatever the caller supplied there.
C27_OneCursorAfterFetch ==
    [][FetchStep =>
        /\ trace'.delivered # <<>> =>
              IF iter.direction = UP
              THEN iter'.before # None /\ iter'.after = None
              ELSE iter'.after # None /\ iter'.before = None
        /\ (trace.delivered # <<>> /\ sent' # <<>>) =>
              IF iter.direction = UP
              THEN sent'[1].after = None /\ sent'[1].before # None
              ELSE sent'[1].before = None /\ sent'[1].after # None]_vars

\* an UP iterator made with an after cursor has fetched again, without it
C27_Witness ==
    /\ iter.live /\ iter.direction = UP
    /\ trace.after0 # None
    /\ trace.delivered # <<>>
    /\ ReadCall
    /\ sent # <<>>
    /\ sent[1].after = None
    /\ sent[1].before # None

-----------------------------------------------------------------------------
(* Claims about the member cache *)

\* C28: get_member(user) for a user in guild.members returns that member with
\* no API call and no change; on a miss it makes exactly one member fetch:
\* if the fetch succeeds the result is returned and stored in guild.members
\* (so a later get_member for the user is a hit), and if it raises
\* APIException get_member returns None, does not raise, and leaves
\* guild.members unchanged.
C28_CacheAside ==
    [][GuildGetMember =>
        LET u == ret'.arg
        IN  /\ ret'.kind = "return"
            /\ IF u \in DOMAIN members
               THEN /\ sent' = <<>>
                    /\ members' = members
                    /\ ref' = <<"member", u>>
               ELSE /\ sent' = <<MemberFetch(u)>>
                    /\ \/ /\ ref' = NoRef
                          /\ members' = members
                       \/ /\ ref' = <<"member", u>>
                          /\ DOMAIN members' = DOMAIN members \cup {u}
                          /\ members'[u].id = u
                          /\ \A w \in DOMAIN members : members'[w] = members[w]]_vars

\* user 5 was fetched and stored by an earlier call, and the last get_member
\* for 5 returned the member without an API call
C28_Witness ==
    /\ ret.op = "Guild.get_member"
    /\ ret.arg = 5
    /\ 5 \in DOMAIN members
    /\ sent = <<>>
    /\ ref = <<"member", 5>>

-----------------------------------------------------------------------------
(* Claims about the overwrite operations *)

\* what channel.get_permissions(u) gives in this state, for each user and
\* each answer of the member fetch
ChannelPermissions ==
    [u \in UserIds |-> [resp \in ApiResponses |-> Channel_get_permissions(u, resp).out]]

\* C30: PermissionOverwrite.save, PermissionOverwrite.delete and
\* Channel.create_overwrite only send a request: the channel's overwrites map
\* and every overwrite's allow and deny are unchanged, so Channel.get_permissions
\* gives the same result right after the call as right before it; save
\* returns the overwrite it was called on.
C30_OverwriteOpsOnlySend ==
    [][OverwriteOps =>
        /\ overwrites' = overwrites
        /\ Len(sent') = 1
        /\ ChannelPermissions' = ChannelPermissions
        /\ ret'.op = "PermissionOverwrite.save" => ref' = <<"overwrite", ret'.arg>>]_vars

\* the everyone overwrite, which denies a permission the everyone role gives,
\* was deleted on the API side and is still in the channel's overwrites
C30_Witness ==
    /\ ret.op = "PermissionOverwrite.delete"
    /\ ret.arg = GuildId
    /\ GuildId \in DOMAIN overwrites
    /\ overwrites[GuildId].deny = 1
    /\ GuildId \in DOMAIN roles /\ roles[GuildId] = 1
    /\ sent[1].api = "channels_permissions_delete"

=============================================================================
